---- MODULE Spec2Model ----
(***************************************************************************)
(* A state-machine model of main.py of heart_effect: the start-up code     *)
(* that builds the root and working point clouds and seeds the particle    *)
(* pool, and the main loop (poll, fill, heart_beat, draw, update of the    *)
(* falling particles, top-up, display update).                             *)
(*                                                                         *)
(* Representation.  A Pos is a record [x, y, real_x, real_y, color].  A    *)
(* Particle is a record with the same fields plus start_time, velocity,    *)
(* active, and id, which stands for the identity of the Python object      *)
(* (particles.remove(p) removes by identity).  A Particle's y and velocity *)
(* are floats in the program; here they are fixed-point numbers counted in *)
(* 1/SubPixel of a pixel, and GRAVITY is one such unit.  The constants of  *)
(* the program (canvas size, shape scales, jitter ranges, delays, pool and *)
(* batch sizes) are scaled down from their values in main.py so that the   *)
(* state space is finite and small; each keeps its name or is named after  *)
(* the statement that holds the literal.  The wall clock is the variable   *)
(* now, in ticks; it advances in steps of its own, taken where the next    *)
(* statement reads it.  screen is the set of set_at calls since the last   *)
(* fill, steps the statements of the loop body run in the current frame,   *)
(* and expired the objects that the call of update_falling_particles that  *)
(* has just returned removed from the pool, as it left them.               *)
(***************************************************************************)
EXTENDS Integers, Sequences, FiniteSets

VARIABLES pc, heart_data_root, heart_data, falling_particles, running,
          now, screen, steps, expired

vars == <<pc, heart_data_root, heart_data, falling_particles, running,
          now, screen, steps, expired>>

(***************************************************************************)
(* Sizes.                                                                  *)
(***************************************************************************)
\* WIDTH, HEIGHT = 600, 600
WIDTH == 1

HEIGHT == 3

\* PARTICLE_COUNT = 1000
PARTICLE_COUNT == 2

\* bottom_particles = sorted_heart_data[:5000]
BottomCount == 2

\* generate_falling_particles(heart_data, 5) in the top-up loop
TopUpBatch == 2

\* units of a Particle's y and velocity per pixel
SubPixel == 2

\* GRAVITY = 0.1, in units of 1/SubPixel
GRAVITY == 1

\* MAX_DELAY = 2.5, of random.uniform(0, MAX_DELAY), in clock ticks
MAX_DELAY == 2

\* random.uniform(0, 1) on recycling, in clock ticks
RecycleDelay == 1

\* the clock stops advancing at MaxTime
MaxTime == 1

\* random.randint(-20, 20) and random.randint(-10, 10) of get_pos_begin
JitterBeginX == 0

JitterBeginY == 1

\* random.randint(-5, 5) and random.randint(-10, 10) of get_hide_pos
JitterHideX == 0

JitterHideY == 0

\* random.randint(-3, 3) of heart_beat
JitterBeat == 0

\* scale = [150, 120]
scale == <<1, 1>>

center_x == WIDTH \div 2

center_y == HEIGHT \div 2

\* math.sin(t), in tenths
SinTenths == {-10, 0, 5, 10}

(***************************************************************************)
(* Helpers.                                                                *)
(***************************************************************************)
\* Python's int() on a quotient n/d, d > 0: truncation toward zero
Trunc(n, d) == IF n >= 0 THEN n \div d ELSE -((-n) \div d)

\* Python's range(lo, hi, step), step > 0, as a sequence
Range(lo, hi, step) ==
    LET n == IF hi > lo THEN (hi - lo + step - 1) \div step ELSE 0
    IN  [i \in 1..n |-> lo + (i - 1) * step]

Jitter(j) == (-j)..j

Pos(x, y, color, real_x, real_y) ==
    [x |-> x, y |-> y, real_x |-> real_x, real_y |-> real_y, color |-> color]

\* Particle(x, y, color, real_x, real_y, delay), built at clock reading t
\* as the object of identity id
Particle(id, p, t, delay) ==
    [id |-> id, x |-> p.x, y |-> p.y * SubPixel, real_x |-> p.real_x,
     real_y |-> p.real_y, color |-> p.color, start_time |-> t + delay,
     velocity |-> 0, active |-> FALSE]

\* ((x/s)^2 + (y/s)^2 - 1)^3 - (x/s)^2 (y/s)^3 <= 0, multiplied by s^6
heart_equation(x, y, scale_type) ==
    LET s == scale[scale_type + 1]
        a == x * x + y * y - s * s
    IN  a * a * a - s * x * x * y * y * y <= 0

\* the gradient colour depends on the distance from the centre only
get_fade_color(real_x, real_y) == <<"fade", real_x * real_x + real_y * real_y>>

\* the accepted (real_x, real_y) of a scan, in scan order
RECURSIVE Scan(_, _, _, _, _)
Scan(xs, ys, i, j, scale_type) ==
    IF i > Len(xs) THEN <<>>
    ELSE IF j > Len(ys) THEN Scan(xs, ys, i + 1, 1, scale_type)
    ELSE (IF heart_equation(xs[i], ys[j], scale_type)
            THEN <<[real_x |-> xs[i], real_y |-> ys[j]]>> ELSE <<>>)
         \o Scan(xs, ys, i, j + 1, scale_type)

ScanBegin(scale_type) ==
    Scan(Range((-WIDTH) \div 2, WIDTH \div 2, 1),
         Range((-HEIGHT) \div 2, HEIGHT \div 2, 2), 1, 1, scale_type)

ScanHide(scale_type) ==
    Scan(Range((-WIDTH) \div 2, WIDTH \div 2, 1),
         Range((-HEIGHT) \div 2, HEIGHT \div 2, 1), 1, 1, scale_type)

\* jx[k], jy[k]: the two random.randint results for the k-th accepted point
get_pos_begin(scale_type, jx, jy) ==
    LET pts == ScanBegin(scale_type)
    IN  [k \in 1..Len(pts) |->
            Pos(center_x + pts[k].real_x + jx[k], center_y - pts[k].real_y + jy[k],
                get_fade_color(pts[k].real_x, pts[k].real_y),
                pts[k].real_x, pts[k].real_y)]

get_hide_pos(scale_type, jx, jy) ==
    LET pts == ScanHide(scale_type)
    IN  [k \in 1..Len(pts) |->
            Pos(center_x + pts[k].real_x + jx[k], center_y - pts[k].real_y + jy[k],
                get_fade_color(pts[k].real_x, pts[k].real_y),
                pts[k].real_x, pts[k].real_y)]

(***************************************************************************)
(* Randomness and the clock.                                               *)
(***************************************************************************)
\* the results random.sample(population of n, count) can have
Samples(n, count) ==
    {s \in [1..count -> 1..n] : \A i, j \in 1..count : i # j => s[i] # s[j]}

IdsOf(particles) == {particles[i].id : i \in 1..Len(particles)}

\* identities for n new objects: the n least numbers no pool member has
RECURSIVE FreshIds(_, _)
FreshIds(used, n) ==
    IF n = 0 THEN <<>>
    ELSE LET id == CHOOSE k \in 1..(Cardinality(used) + 1) : k \notin used
         IN  <<id>> \o FreshIds(used \cup {id}, n - 1)

(***************************************************************************)
(* generate_falling_particles                                              *)
(***************************************************************************)
\* sorted(heart_data, key=lambda p: p.real_y): a stable sort
RECURSIVE InsertByRealY(_, _)
InsertByRealY(p, sorted) ==
    IF sorted = <<>> THEN <<p>>
    ELSE IF sorted[Len(sorted)].real_y <= p.real_y THEN Append(sorted, p)
    ELSE Append(InsertByRealY(p, SubSeq(sorted, 1, Len(sorted) - 1)),
                sorted[Len(sorted)])

RECURSIVE SortByRealY(_)
SortByRealY(cloud) ==
    IF cloud = <<>> THEN <<>>
    ELSE InsertByRealY(cloud[Len(cloud)], SortByRealY(SubSeq(cloud, 1, Len(cloud) - 1)))

bottom_particles(cloud) ==
    LET sorted_heart_data == SortByRealY(cloud)
    IN  SubSeq(sorted_heart_data, 1,
               IF Len(sorted_heart_data) < BottomCount
                   THEN Len(sorted_heart_data) ELSE BottomCount)

\* sample: the indices random.sample drew; delays: the random.uniform results;
\* t: the clock reading; ids: the identities of the new objects
generate_falling_particles(cloud, count, sample, delays, t, ids) ==
    [k \in 1..count |->
        Particle(ids[k], bottom_particles(cloud)[sample[k]], t, delays[k])]

(***************************************************************************)
(* update_falling_particles                                                *)
(***************************************************************************)
\* a variant of Eligible: ">" written for ">="
EligibleStrict(p, current_time) == current_time > p.start_time

\* current_time >= p.start_time
Eligible(p, current_time) == current_time >= p.start_time

\* a variant of Fall: the particle is activated but never moved
FallFrozen(p) == [p EXCEPT !.active = TRUE]

\* p.active = True (when it was not); p.velocity += GRAVITY; p.y += p.velocity
Fall(p) ==
    [p EXCEPT !.active = TRUE, !.velocity = p.velocity + GRAVITY,
              !.y = p.y + p.velocity + GRAVITY]

\* a variant of Expired: the particle is culled one pixel too late
ExpiredLate(p) == p.y > (HEIGHT + 1) * SubPixel

\* p.y > HEIGHT
Expired(p) == p.y > HEIGHT * SubPixel

\* the cloud random.choice draws the replacement from
RecycleCloud == heart_data_root

\* a variant of Remove: particles.pop(0) written for particles.remove(p)
RemoveFirst(particles, id) == Tail(particles)

\* particles.remove(p)
Remove(particles, id) ==
    SelectSeq(particles, LAMBDA q : q.id # id)

\* the writes to the object p show in the list that holds it
Store(particles, p) ==
    [i \in 1..Len(particles) |-> IF particles[i].id = p.id THEN p ELSE particles[i]]

\* screen.set_at((int(p.x), int(p.y)), p.color), with the state of p at the call
SetAtParticle(p, particles) ==
    [x |-> p.x, y |-> Trunc(p.y, SubPixel), color |-> p.color, src |-> "particle",
     id |-> p.id, raw_y |-> p.y, active |-> p.active, inPool |-> p.id \in IdsOf(particles)]

\* screen.set_at((p.x, p.y), p.color) of the main loop, for heart_data[i]
SetAtPos(p, i) ==
    [x |-> p.x, y |-> p.y, color |-> p.color, src |-> "heart",
     id |-> i, raw_y |-> p.y * SubPixel, active |-> FALSE, inPool |-> FALSE]

\* one iteration of "for p in particles[:]" on the local state
\* S = [particles, new_particles, screen, expired]; pick: what random.choice returns
UpdateOne(p, S, current_time, pick) ==
    IF ~p.active /\ ~Eligible(p, current_time) THEN S
    ELSE LET q == Fall(p)
         IN  IF Expired(q)
               THEN [S EXCEPT !.particles = Remove(S.particles, q.id),
                              !.new_particles = Append(S.new_particles, pick),
                              !.expired = S.expired \cup {q}]
               ELSE LET stored == Store(S.particles, q)
                    IN  [S EXCEPT !.particles = stored,
                                  !.screen = S.screen \cup {SetAtParticle(q, stored)}]

RECURSIVE UpdateLoop(_, _, _, _, _)
UpdateLoop(snapshot, i, S, current_time, choice) ==
    IF i > Len(snapshot) THEN S
    ELSE UpdateLoop(snapshot, i + 1,
                    UpdateOne(snapshot[i], S, current_time, RecycleCloud[choice[i]]),
                    current_time, choice)

\* a variant of Replacements: the second loop is left out
ReplacementsForgotten(new_particles, delays, t, ids) == <<>>

\* the second loop: a Particle for each entry of new_particles
Replacements(new_particles, delays, t, ids) ==
    [k \in 1..Len(new_particles) |-> Particle(ids[k], new_particles[k], t, delays[k])]

\* choice[i]: the index random.choice would draw in iteration i;
\* delays[k]: the k-th random.uniform(0, 1)
update_falling_particles(particles, scr, current_time, choice, delays) ==
    LET S == UpdateLoop(particles, 1,
                        [particles |-> particles, new_particles |-> <<>>,
                         screen |-> scr, expired |-> {}],
                        current_time, choice)
        ids == FreshIds(IdsOf(particles), Len(S.new_particles))
    IN  [particles |-> S.particles
                        \o Replacements(S.new_particles, delays, current_time, ids),
         screen |-> S.screen, expired |-> S.expired]

(***************************************************************************)
(* heart_beat                                                              *)
(***************************************************************************)
\* scale_factor, times 100000, for math.sin(t) = k / 10
ScaleFactor(k) ==
    IF k > 0 THEN 100000 + 6 * k * k * k
    ELSE 100000 + 600 * k

\* jx[i], jy[i]: the two random.randint(-3, 3) results for point i
heart_beat(working, original_heart_data, k, jx, jy) ==
    [i \in 1..Len(working) |->
        LET original_x == original_heart_data[i].real_x
            original_y == original_heart_data[i].real_y
            new_x == Trunc(original_x * ScaleFactor(k), 100000) + jx[i]
            new_y == Trunc(original_y * ScaleFactor(k), 100000) + jy[i]
        IN  [working[i] EXCEPT !.real_x = new_x, !.real_y = new_y,
                               !.x = center_x + new_x, !.y = center_y - new_y]]

(***************************************************************************)
(* Start-up: the module-level code after the definitions.                  *)
(***************************************************************************)
Init ==
    /\ pc = "gen"
    /\ heart_data_root = <<>>
    /\ heart_data = <<>>
    /\ falling_particles = <<>>
    /\ running = TRUE
    /\ now = 0
    /\ screen = {}
    /\ steps = <<>>
    /\ expired = {}

\* get_pos_begin(heart_data_root, 0); get_hide_pos(layout_2, 1);
\* heart_data_root.extend(layout_2)
GenRoot ==
    /\ pc = "gen"
    /\ \E bx \in [1..Len(ScanBegin(0)) -> Jitter(JitterBeginX)],
          by \in [1..Len(ScanBegin(0)) -> Jitter(JitterBeginY)],
          hx \in [1..Len(ScanHide(1)) -> Jitter(JitterHideX)],
          hy \in [1..Len(ScanHide(1)) -> Jitter(JitterHideY)] :
            heart_data_root' = get_pos_begin(0, bx, by) \o get_hide_pos(1, hx, hy)
    /\ pc' = "copy"
    /\ UNCHANGED <<heart_data, falling_particles, running, now, screen, steps, expired>>

\* heart_data = deepcopy(heart_data_root)
DeepCopy ==
    /\ pc = "copy"
    /\ heart_data' = heart_data_root
    /\ pc' = "seed"
    /\ UNCHANGED <<heart_data_root, falling_particles, running, now, screen, steps, expired>>

\* falling_particles = generate_falling_particles(heart_data_root, PARTICLE_COUNT)
Seed ==
    /\ pc = "seed"
    /\ \E sample \in Samples(Len(bottom_particles(heart_data_root)), PARTICLE_COUNT),
          delays \in [1..PARTICLE_COUNT -> 0..MAX_DELAY] :
            falling_particles' =
                generate_falling_particles(heart_data_root, PARTICLE_COUNT, sample,
                                           delays, now, FreshIds({}, PARTICLE_COUNT))
    /\ pc' = "normalise"
    /\ UNCHANGED <<heart_data_root, heart_data, running, now, screen, steps, expired>>

\* for p in heart_data_root: p.real_x = p.x - center_x; p.real_y = center_y - p.y
NormaliseRoot(root) ==
    [i \in 1..Len(root) |->
        [root[i] EXCEPT !.real_x = root[i].x - center_x,
                        !.real_y = center_y - root[i].y]]

Normalise ==
    /\ pc = "normalise"
    /\ heart_data_root' = NormaliseRoot(heart_data_root)
    /\ pc' = "while"
    /\ UNCHANGED <<heart_data, falling_particles, running, now, screen, steps, expired>>

(***************************************************************************)
(* The main loop.                                                          *)
(***************************************************************************)
\* a variant of FrameOrder: the working points are drawn before heart_beat
FrameOrderDrawFirst == <<"poll", "fill", "draw", "beat", "update", "topup", "flip">>

\* the statements of the loop body, in order
FrameOrder == <<"poll", "fill", "beat", "draw", "update", "topup", "flip">>

\* the position after the loop body's statement at position p
AfterStep(p) ==
    IF p = "flip" THEN "while"
    ELSE FrameOrder[1 + CHOOSE i \in 1..Len(FrameOrder) : FrameOrder[i] = p]

\* while running:
While ==
    /\ pc = "while"
    /\ pc' = IF running THEN "poll" ELSE "done"
    /\ steps' = IF running THEN <<>> ELSE steps
    /\ UNCHANGED <<heart_data_root, heart_data, falling_particles, running, now, screen, expired>>

\* a variant of PollEvents: the loop is left at once on a QUIT event
PollEventsBreak(quit) ==
    /\ running' = IF quit THEN FALSE ELSE running
    /\ pc' = IF quit THEN "done" ELSE "fill"

\* for event in pygame.event.get(): if event.type == pygame.QUIT: running = False
PollEvents(quit) ==
    /\ running' = IF quit THEN FALSE ELSE running
    /\ pc' = AfterStep("poll")

Poll ==
    /\ pc = "poll"
    /\ \E quit \in BOOLEAN : PollEvents(quit)
    /\ steps' = Append(steps, "poll")
    /\ UNCHANGED <<heart_data_root, heart_data, falling_particles, now, screen, expired>>

\* screen.fill(BLACK)
Fill ==
    /\ pc = "fill"
    /\ screen' = {}
    /\ pc' = AfterStep("fill")
    /\ steps' = Append(steps, "fill")
    /\ UNCHANGED <<heart_data_root, heart_data, falling_particles, running, now, expired>>

\* a variant of Beat: heart_data is the list heart_data_root itself, not a copy
BeatThroughAlias ==
    /\ pc = "beat"
    /\ \E k \in SinTenths,
          jx \in [1..Len(heart_data) -> Jitter(JitterBeat)],
          jy \in [1..Len(heart_data) -> Jitter(JitterBeat)] :
            /\ heart_data' = heart_beat(heart_data, heart_data_root, k, jx, jy)
            /\ heart_data_root' = heart_data'
    /\ pc' = "draw"
    /\ steps' = Append(steps, "beat")
    /\ UNCHANGED <<falling_particles, running, now, screen, expired>>

\* heart_beat(heart_data, heart_data_root, 0)
Beat ==
    /\ pc = "beat"
    /\ \E k \in SinTenths,
          jx \in [1..Len(heart_data) -> Jitter(JitterBeat)],
          jy \in [1..Len(heart_data) -> Jitter(JitterBeat)] :
            heart_data' = heart_beat(heart_data, heart_data_root, k, jx, jy)
    /\ pc' = AfterStep("beat")
    /\ steps' = Append(steps, "beat")
    /\ UNCHANGED <<heart_data_root, falling_particles, running, now, screen, expired>>

\* for p in heart_data: screen.set_at((p.x, p.y), p.color)
DrawHeart ==
    /\ pc = "draw"
    /\ screen' = screen \cup {SetAtPos(heart_data[i], i) : i \in 1..Len(heart_data)}
    /\ pc' = AfterStep("draw")
    /\ steps' = Append(steps, "draw")
    /\ UNCHANGED <<heart_data_root, heart_data, falling_particles, running, now, expired>>

\* update_falling_particles(falling_particles)
Update ==
    /\ pc = "update"
    /\ \E choice \in [1..Len(falling_particles) -> 1..Len(RecycleCloud)],
          delays \in [1..Len(falling_particles) -> 0..RecycleDelay] :
            LET current_time == now
                r == update_falling_particles(falling_particles, screen,
                                              current_time, choice, delays)
            IN  /\ falling_particles' = r.particles
                /\ screen' = r.screen
                /\ expired' = r.expired
    /\ pc' = AfterStep("update")
    /\ steps' = Append(steps, "update")
    /\ UNCHANGED <<heart_data_root, heart_data, running, now>>

\* while len(falling_particles) < PARTICLE_COUNT:
\*     falling_particles.extend(generate_falling_particles(heart_data, 5))
\* samples[n], delays[n]: the random results of the n-th pass
RECURSIVE top_up(_, _, _, _, _)
top_up(particles, n, samples, delays, t) ==
    IF Len(particles) >= PARTICLE_COUNT THEN particles
    ELSE top_up(particles \o generate_falling_particles(heart_data, TopUpBatch,
                                  samples[n], delays[n], t,
                                  FreshIds(IdsOf(particles), TopUpBatch)),
                n + 1, samples, delays, t)

\* the passes the loop can need
MaxPasses == (PARTICLE_COUNT + TopUpBatch - 1) \div TopUpBatch

TopUp ==
    /\ pc = "topup"
    /\ IF Len(falling_particles) >= PARTICLE_COUNT
         THEN UNCHANGED falling_particles
         ELSE \E samples \in [1..MaxPasses ->
                                Samples(Len(bottom_particles(heart_data)), TopUpBatch)],
                 delays \in [1..MaxPasses -> [1..TopUpBatch -> 0..MAX_DELAY]] :
                   falling_particles' = top_up(falling_particles, 1, samples, delays, now)
    /\ pc' = AfterStep("topup")
    /\ steps' = Append(steps, "topup")
    /\ expired' = {}
    /\ UNCHANGED <<heart_data_root, heart_data, running, now, screen>>

\* pygame.display.update()
Flip ==
    /\ pc = "flip"
    /\ pc' = AfterStep("flip")
    /\ steps' = Append(steps, "flip")
    /\ UNCHANGED <<heart_data_root, heart_data, falling_particles, running, now, screen, expired>>

\* the next statement calls time.time(): Particle() or update_falling_particles
ReadsClock ==
    \/ pc \in {"seed", "update"}
    \/ pc = "topup" /\ Len(falling_particles) < PARTICLE_COUNT

\* the wall clock advances
Tick ==
    /\ ReadsClock
    /\ now < MaxTime
    /\ now' = now + 1
    /\ UNCHANGED <<pc, heart_data_root, heart_data, falling_particles, running,
                   screen, steps, expired>>

Next ==
    \/ Tick
    \/ GenRoot
    \/ DeepCopy
    \/ Seed
    \/ Normalise
    \/ While
    \/ Poll
    \/ Fill
    \/ Beat
    \/ DrawHeart
    \/ Update
    \/ TopUp
    \/ Flip

Spec == Init /\ [][Next]_vars

(***************************************************************************)
(* Properties.                                                             *)
(***************************************************************************)
Startup == {"gen", "copy", "seed", "normalise"}

Limit == HEIGHT * SubPixel

ParticlePixels == {d \in screen : d.src = "particle"}

HeartPixels == {d \in screen : d.src = "heart"}

\* the call of update_falling_particles is the step being taken
UpdateReturns == pc = "update" /\ pc' = "topup"

\* the number of particles the returning call replaced
Replaced == Cardinality(expired')

\* C1: at the end of every frame (after the top-up loop) the pool holds
\* exactly PARTICLE_COUNT particles.
PoolSizeInvariant ==
    (pc = "flip" \/ (pc \in {"while", "done"} /\ steps # <<>>))
        => Len(falling_particles) = PARTICLE_COUNT

\* a frame has ended in which none of the seeded objects is left in the pool
PoolSizeWitness ==
    /\ pc = "flip"
    /\ IdsOf(falling_particles) \cap (1..PARTICLE_COUNT) = {}
    /\ Len(falling_particles) = PARTICLE_COUNT

\* C2: every set_at call of update_falling_particles is for a particle that
\* is in the pool, is active and has y <= HEIGHT, and is at the position the
\* pool member has; no pool member has y > HEIGHT.
NeverDrawnBelow ==
    /\ \A d \in ParticlePixels :
          /\ d.inPool /\ d.active /\ d.raw_y <= Limit
          /\ \E i \in 1..Len(falling_particles) :
                /\ falling_particles[i].id = d.id
                /\ falling_particles[i].y = d.raw_y
    /\ \A i \in 1..Len(falling_particles) : falling_particles[i].y <= Limit

\* an update has removed one particle and drawn another
NeverDrawnBelowWitness ==
    /\ pc = "topup"
    /\ expired # {}
    /\ ParticlePixels # {}

\* C3: one update call removes exactly the particles whose y is above HEIGHT
\* and appends as many fresh particles (velocity 0, not active) as it removed.
RemovesAndReplaces ==
    [][UpdateReturns =>
        LET pre == falling_particles
            post == falling_particles'
            gone == {q.id : q \in expired'}
        IN  /\ \A q \in expired' : q.y > Limit
            /\ gone \subseteq IdsOf(pre)
            /\ gone \cap IdsOf(post) = {}
            /\ Len(post) = Len(pre)
            /\ \A j \in 1..(Len(pre) - Replaced) :
                  /\ post[j].id \in IdsOf(pre) \ gone
                  /\ post[j].y <= Limit
            /\ \A j \in (Len(pre) - Replaced + 1)..Len(post) :
                  /\ post[j].id \notin IdsOf(pre)
                  /\ post[j].velocity = 0
                  /\ ~post[j].active
       ]_vars

\* an update has removed a particle and the last pool entry is its replacement
RemovesAndReplacesWitness ==
    /\ pc = "topup"
    /\ Cardinality(expired) = 1
    /\ LET last == falling_particles[Len(falling_particles)]
       IN  last.velocity = 0 /\ ~last.active /\ last.start_time >= now

\* q is a copy of the point p made by Particle()
CopyOf(q, p) ==
    /\ q.x = p.x /\ q.y = p.y * SubPixel
    /\ q.real_x = p.real_x /\ q.real_y = p.real_y /\ q.color = p.color

\* C4: every replacement particle an update creates is a copy of a point of
\* the working cloud heart_data, with a start delay in [0, 1].
ReplacementFromWorkingCloud ==
    [][UpdateReturns =>
        \A j \in (Len(falling_particles) - Replaced + 1)..Len(falling_particles') :
            /\ \E i \in 1..Len(heart_data) : CopyOf(falling_particles'[j], heart_data[i])
            /\ falling_particles'[j].start_time - now' \in 0..RecycleDelay
       ]_vars

\* C5: an update activates a pending particle whose start time has come
\* (active, velocity = GRAVITY) and leaves one whose start time is in the
\* future as it was, undrawn.
ActivatesWhenDue ==
    [][UpdateReturns =>
        \A i \in 1..Len(falling_particles) :
            LET p == falling_particles[i]
                after == {q \in expired' : q.id = p.id}
                           \cup {falling_particles'[j] : j \in
                                   {j \in 1..Len(falling_particles') :
                                       falling_particles'[j].id = p.id}}
            IN  (~p.active /\ p.velocity = 0) =>
                    IF p.start_time <= now'
                      THEN /\ after # {}
                           /\ \A q \in after : q.active /\ q.velocity = GRAVITY
                      ELSE /\ after = {p}
                           /\ p \notin expired'
                           /\ \A d \in screen' : ~(d.src = "particle" /\ d.id = p.id)
       ]_vars

\* an update has activated one particle and left another pending
ActivatesWhenDueWitness ==
    /\ pc = "topup"
    /\ \E i, j \in 1..Len(falling_particles) :
          /\ falling_particles[i].active
          /\ falling_particles[i].velocity = GRAVITY
          /\ ~falling_particles[j].active
          /\ falling_particles[j].start_time > now

Consistent(p) == p.x = center_x + p.real_x /\ p.y = center_y - p.real_y

\* C6: from the end of start-up on, every point of heart_data_root and of
\* heart_data has x = center_x + real_x and y = center_y - real_y.
PointInvariant ==
    pc \notin Startup =>
        /\ \A i \in 1..Len(heart_data_root) : Consistent(heart_data_root[i])
        /\ \A i \in 1..Len(heart_data) : Consistent(heart_data[i])

\* C7: after start-up no step changes heart_data_root, and only heart_beat
\* changes heart_data.
CloudsWrittenOnlyByOwner ==
    [][pc \notin Startup =>
        /\ heart_data_root' = heart_data_root
        /\ (heart_data' # heart_data => pc = "beat")
       ]_vars

\* particles were moved, removed and created while the working cloud is deformed
CloudsWitness ==
    /\ pc = "topup"
    /\ expired # {}
    /\ heart_data # heart_data_root
    /\ \A i \in 1..Len(heart_data_root) : Consistent(heart_data_root[i])

IsPrefix(s, t) == Len(s) <= Len(t) /\ s = SubSeq(t, 1, Len(s))

\* C8: the frame in which a quit event is polled runs all its steps in order,
\* and no frame is started after it.
QuitEndsAfterFrame ==
    [][/\ IsPrefix(steps', FrameOrder)
       /\ (~running => pc' # "poll")
       /\ (pc' = "done" => ~running' /\ steps' = FrameOrder)
       /\ (~running /\ pc = "while" => pc' = "done")
      ]_vars

\* the loop has ended, and its last frame updated and drew the particles
QuitWitness ==
    /\ pc = "done"
    /\ ~running
    /\ steps = FrameOrder
    /\ HeartPixels # {}

\* a set_at call was made in the current frame
DrawnThisFrame == screen # {} /\ Len(steps) >= 2

\* C9: once a pixel is drawn in a frame, no working point and no pool entry
\* is modified until the next frame begins.
NoMutationAfterDraw ==
    [][DrawnThisFrame =>
        heart_data' = heart_data /\ falling_particles' = falling_particles]_vars

\* C9, amended: once a pixel is drawn in a frame the working cloud is not
\* modified until the next frame begins; the pool is modified only after the
\* working points are drawn, by update_falling_particles and the top-up loop.
NoCloudMutationAfterDraw ==
    [][/\ DrawnThisFrame => heart_data' = heart_data
       /\ (pc \notin Startup /\ falling_particles' # falling_particles) =>
              pc \in {"update", "topup"} /\ HeartPixels # {} /\ DrawnThisFrame
      ]_vars

\* the working points are on the screen and the update has then changed the pool
NoCloudMutationWitness ==
    /\ pc = "topup"
    /\ HeartPixels # {}
    /\ \E i \in 1..Len(falling_particles) : falling_particles[i].velocity > GRAVITY

(***************************************************************************)
(* Liveness.  The program keeps taking steps, and the clock keeps          *)
(* advancing as long as it can.                                            *)
(***************************************************************************)
\* the loop body's poll when no QUIT event arrives
PollNoQuit ==
    /\ pc = "poll"
    /\ PollEvents(FALSE)
    /\ steps' = Append(steps, "poll")
    /\ UNCHANGED <<heart_data_root, heart_data, falling_particles, now, screen, expired>>

NextNoQuit ==
    \/ Tick
    \/ GenRoot
    \/ DeepCopy
    \/ Seed
    \/ Normalise
    \/ While
    \/ PollNoQuit
    \/ Fill
    \/ Beat
    \/ DrawHeart
    \/ Update
    \/ TopUp
    \/ Flip

FairSpec == Init /\ [][NextNoQuit]_vars /\ WF_vars(NextNoQuit) /\ SF_vars(Tick)

\* the identities FreshIds can hand out
Ids == 1..(2 * PARTICLE_COUNT)

InPool(id) == id \in IdsOf(falling_particles)

\* the object id is in the pool and its start time is one the clock reaches
InPoolDue(id) ==
    \E i \in 1..Len(falling_particles) :
        /\ falling_particles[i].id = id
        /\ falling_particles[i].start_time <= MaxTime

\* C10: while the loop is not quit, every particle in the pool is eventually
\* removed from it, the removed particles are active ones, and every update
\* makes an active particle faster by GRAVITY and moves it down.
EveryParticleLeaves ==
    /\ \A id \in Ids : InPoolDue(id) ~> ~InPool(id)
    /\ [][UpdateReturns =>
            /\ \A q \in expired' : q.active
            /\ \A i \in 1..Len(falling_particles) :
                  falling_particles[i].active =>
                      \E q \in expired' \cup {falling_particles'[j] :
                                                j \in 1..Len(falling_particles')} :
                          /\ q.id = falling_particles[i].id
                          /\ q.velocity = falling_particles[i].velocity + GRAVITY
                          /\ q.y > falling_particles[i].y
         ]_vars

\* an object that had to wait for the clock has been activated, has fallen
\* and has been removed
EveryParticleLeavesWitness ==
    /\ pc = "topup"
    /\ running
    /\ \E q \in expired : q.start_time = MaxTime /\ q.active /\ q.velocity > GRAVITY
    /\ IdsOf(falling_particles) \subseteq Ids

====
